---- MODULE Spec2Model ----
(***************************************************************************)
(* Decision-list evaluation engine of iml/models/rule_model.py: Rule,      *)
(* the rule-name parser, and the traversals of SBRL (decision_support,     *)
(* decision_path, predict_prob, predict, compute_support).                 *)
(*                                                                         *)
(* Conventions.  A numpy array of shape (n, w) is a record                 *)
(* [shape |-> <<n, w>>, rows |-> <<row_1, ..., row_n>>]; a boolean mask of *)
(* shape (n,) is a sequence of n BOOLEANs; a Python list is a sequence.    *)
(* Python indices are 0-based and TLA+ sequences 1-based: Python's a[k] is *)
(* a[k + 1] here.  A text is a sequence of one-character strings.  A       *)
(* probability is an integer number of tenths.  A Python value that is     *)
(* either an outcome or a raised exception is a record [kind, val], kind   *)
(* being "ok" or the exception's class.                                    *)
(***************************************************************************)
EXTENDS Integers, Sequences, FiniteSets, TLC

----------------------------------------------------------------------------
(* Bounds of the model. *)

MaxRules == 3
MaxInst == 2
MaxDigits == 2
MaxClauses == 3

(* Program constant: the default of SBRL.__init__'s rule_maxlen, the mining  *)
(* engine's largest number of conditions in one rule.                       *)

rule_maxlen == 2

(* The categorical data the model ranges over. *)

Features == {0, 1}
Categories == {0, 1}
Labels == {0, 1}

----------------------------------------------------------------------------
(* Python and numpy primitives. *)

Ok(v) == [kind |-> "ok", val |-> v]
Raise(e) == [kind |-> e, val |-> <<>>]

MinOf(a, b) == IF a <= b THEN a ELSE b

(* the element of a one-element set: {e(v) : v \in {d}} names d's value v   *)
TheOne(S) == CHOOSE v \in S : TRUE

np_ones(n) == [j \in 1..n |-> TRUE]
np_zeros(n) == [j \in 1..n |-> FALSE]
logical_and(a, b) == [j \in 1..Len(a) |-> a[j] /\ b[j]]
logical_xor(a, b) == [j \in 1..Len(a) |-> a[j] # b[j]]

reduce_last(masks) == masks[Len(masks)]
RECURSIVE reduce_and(_)
reduce_and(masks) ==
    IF Len(masks) = 1 THEN masks[1]
    ELSE logical_and(reduce_and(SubSeq(masks, 1, Len(masks) - 1)), masks[Len(masks)])

(* x[:, idx]: the column's position, negative indices counting from the end *)
column_ok(x, idx) == idx < x.shape[2] /\ idx >= 0 - x.shape[2]
column_of(x, idx) == IF idx < 0 THEN idx + x.shape[2] + 1 ELSE idx + 1

(* np.argmax: the first index (0-based) of the largest entry *)
argmax(v) ==
    CHOOSE k \in 0..(Len(v) - 1) :
        /\ \A m \in 1..Len(v) : v[m] <= v[k + 1]
        /\ \A m \in 1..k : v[m] < v[k + 1]

----------------------------------------------------------------------------
(* Python str and int(), on texts (sequences of one-character strings). *)

Digits == <<"0", "1", "2", "3", "4", "5", "6", "7", "8", "9">>
IsDigit(ch) == \E d \in 1..10 : Digits[d] = ch
DigitVal(ch) == (CHOOSE d \in 1..10 : Digits[d] = ch) - 1

(* s[a:b] for 0 <= a, 0 <= b *)
Slice(s, a, b) == SubSeq(s, a + 1, MinOf(b, Len(s)))
(* s[a:] *)
SliceFrom(s, a) == SubSeq(s, a + 1, Len(s))
(* s[1:-1] *)
StripEnds(s) == SubSeq(s, 2, Len(s) - 1)

(* s.find(ch): the 0-based position of the first ch, -1 when there is none *)
str_find(s, ch) ==
    IF \E p \in 1..Len(s) : s[p] = ch
    THEN (CHOOSE p \in 1..Len(s) : s[p] = ch /\ \A q \in 1..(p - 1) : s[q] # ch) - 1
    ELSE -1

(* s.split(ch): always at least one piece *)
RECURSIVE str_split(_, _)
str_split(s, ch) ==
    LET p == str_find(s, ch)
    IN IF p = -1 THEN <<s>>
       ELSE <<SubSeq(s, 1, p)>> \o str_split(SubSeq(s, p + 2, Len(s)), ch)

RECURSIVE DigitsVal(_)
DigitsVal(s) ==
    IF Len(s) = 0 THEN 0
    ELSE 10 * DigitsVal(SubSeq(s, 1, Len(s) - 1)) + DigitVal(s[Len(s)])

(* The characters of a text are those a string can hold here: the code      *)
(* points below 256.  Of these, the ones int() and str.strip() take for     *)
(* whitespace are the space, \t, \n, \f, \r and the three below, which have *)
(* no escape and stand in their strings as themselves; the decimal digits   *)
(* are 0 to 9.                                                              *)
(* U+000B, the vertical tab \v *)
VT == ""
(* U+0085, next line *)
NEL == ""
(* U+00A0, the no-break space *)
NBSP == " "

(* s.strip(): the whitespace at both ends taken off *)
Whitespace == {" ", "\t", "\n", VT, "\f", "\r", NEL, NBSP}
RECURSIVE str_lstrip(_)
str_lstrip(s) == IF Len(s) > 0 /\ s[1] \in Whitespace THEN str_lstrip(Tail(s)) ELSE s
RECURSIVE str_rstrip(_)
str_rstrip(s) ==
    IF Len(s) > 0 /\ s[Len(s)] \in Whitespace THEN str_rstrip(SubSeq(s, 1, Len(s) - 1)) ELSE s
str_strip(s) == str_rstrip(str_lstrip(s))

(* int(s): the text without the whitespace around it is an optional sign    *)
(* followed by digits, single underscores allowed between two digits; else  *)
(* ValueError.                                                              *)
py_int(s) ==
    LET t == str_strip(s)
        signed == Len(t) > 0 /\ t[1] \in {"-", "+"}
        body == IF signed THEN SubSeq(t, 2, Len(t)) ELSE t
        digits == SelectSeq(body, IsDigit)
        well_formed ==
            /\ Len(body) > 0
            /\ IsDigit(body[1]) /\ IsDigit(body[Len(body)])
            /\ \A p \in 1..Len(body) : IsDigit(body[p]) \/ body[p] = "_"
            /\ \A p \in 1..(Len(body) - 1) : ~(body[p] = "_" /\ body[p + 1] = "_")
    IN IF ~well_formed THEN Raise("ValueError")
       ELSE Ok(IF signed /\ t[1] = "-" THEN 0 - DigitsVal(digits) ELSE DigitsVal(digits))

(* str(n) for an integer n *)
RECURSIVE NatStr(_)
NatStr(n) == IF n < 10 THEN <<Digits[n + 1]>> ELSE NatStr(n \div 10) \o <<Digits[(n % 10) + 1]>>
py_str(n) == IF n < 0 THEN <<"-">> \o NatStr(0 - n) ELSE NatStr(n)

----------------------------------------------------------------------------
(* class Rule *)

None == [has |-> FALSE, val |-> <<>>]
Some(v) == [has |-> TRUE, val |-> v]

Rule(feature_indices, categories, output, support) ==
    [feature_indices |-> feature_indices, categories |-> categories,
     output |-> output, support |-> support]

(* the test for the default rule that is_satisfy makes *)
is_default_zero(rule) == rule.feature_indices[1] = 0 /\ Len(rule.feature_indices) = 1
is_default(rule) == rule.feature_indices[1] = -1 /\ Len(rule.feature_indices) = 1

(* Rule.is_satisfy: the all-true array for the default rule; otherwise the  *)
(* list of the conditions' column == value masks, reduced with logical_and  *)
(* unless per_condition.                                                    *)
is_satisfy(rule, x_cat, per_condition) ==
    LET fi == rule.feature_indices
        n == x_cat.shape[1]
        k == MinOf(Len(fi), Len(rule.categories))
        satisfied == [c \in 1..k |->
                        [j \in 1..n |->
                            x_cat.rows[j][column_of(x_cat, fi[c])] = rule.categories[c]]]
    IN IF Len(fi) = 0 THEN Raise("IndexError")
       ELSE IF is_default(rule) THEN [kind |-> "array", val |-> np_ones(n)]
       ELSE IF \E c \in 1..k : ~column_ok(x_cat, fi[c]) THEN Raise("IndexError")
       ELSE IF per_condition THEN [kind |-> "list", val |-> satisfied]
       ELSE IF k = 0 THEN Raise("TypeError")
       ELSE [kind |-> "array", val |-> reduce_and(satisfied)]

----------------------------------------------------------------------------
(* Rule.describe.  A text is the sequence of the pieces it is put together  *)
(* from: the literals of the source as written there, and the characters of *)
(* every number converted.  The probabilities are counted in tenths.        *)

RECURSIVE str_join(_, _)
str_join(sep, texts) ==
    IF Len(texts) = 0 THEN <<>>
    ELSE IF Len(texts) = 1 THEN texts[1]
    ELSE texts[1] \o sep \o str_join(sep, Tail(texts))

(* str(prob) and "{:.4f}".format(prob) of a probability of p tenths *)
float_str(p) == IF p >= 10 THEN py_str(p \div 10) \o <<".", Digits[(p % 10) + 1]>>
                ELSE <<"0", ".", Digits[p + 1]>>
format_4f(p) == float_str(p) \o <<"0", "0", "0">>

(* str(interval) of the pair a discretizer gives *)
interval_str(interval) == <<"(">> \o py_str(interval[1]) \o <<", ">> \o py_str(interval[2]) \o <<")">>

(* the label text: lines 41-48 *)
label_text(output, label) ==
    LET pred_label == argmax(output)
    IN IF label = "label"
       THEN Ok(<<"label", ": ">> \o py_str(pred_label) \o <<" (">>
                \o float_str(output[pred_label + 1]) \o <<")">>)
       ELSE IF label = "prob"
       THEN Ok(<<"prob", ": ", "[">>
                \o str_join(<<", ">>, [k \in 1..Len(output) |-> format_4f(output[k])])
                \o <<"]">>)
       ELSE Raise("ValueError")

(* the test for the default rule that describe makes: line 50 *)
describe_default_whole(rule) == rule.feature_indices[1] = -1 /\ Len(rule.feature_indices) = 1
describe_default(rule) == rule.feature_indices[1] = -1

(* feature_names[idx] or "X" + str(idx): lines 54-57 *)
name_ok(feature_names, idx) ==
    ~feature_names.has
    \/ (idx < Len(feature_names.val) /\ idx >= 0 - Len(feature_names.val))
name_of(feature_names, idx) ==
    IF ~feature_names.has THEN <<"X">> \o py_str(idx)
    ELSE IF idx < 0 THEN feature_names.val[idx + Len(feature_names.val) + 1]
    ELSE feature_names.val[idx + 1]

(* one entry of categories: lines 62-68 *)
interval_ok(interval) == ~interval.has \/ Len(interval.val) = 2
category_of(interval, cat) ==
    IF ~interval.has THEN <<" = ">> \o py_str(cat) ELSE <<" in ">> \o interval_str(interval.val)

(* the support text: lines 77-79 *)
support_text(support, pred_label) ==
    IF ~support.has THEN <<>>
    ELSE <<" [">>
         \o str_join(<<"/">>, [k \in 1..Len(support.val) |->
                (IF k - 1 = pred_label THEN <<"+">> ELSE <<"-">>) \o py_str(support.val[k])])
         \o <<"]">>

Rule_describe(rule, feature_names, category_intervals, label) ==
    LET fi == rule.feature_indices
        output == label_text(rule.output, label)
        nc == IF category_intervals.has
              THEN MinOf(Len(category_intervals.val), Len(rule.categories)) ELSE 0
        categories == [c \in 1..nc |-> category_of(category_intervals.val[c], rule.categories[c])]
        conditions == [c \in 1..MinOf(Len(fi), nc) |->
                          <<"(">> \o name_of(feature_names, fi[c]) \o categories[c] \o <<")">>]
        tail == support_text(rule.support, argmax(rule.output))
    IN IF output.kind # "ok" THEN output
       ELSE IF Len(fi) = 0 THEN Raise("IndexError")
       ELSE IF describe_default(rule) THEN Ok(<<"DEFAULT ">> \o output.val \o tail)
       ELSE IF \E c \in 1..Len(fi) : ~name_ok(feature_names, fi[c]) THEN Raise("IndexError")
       ELSE IF ~category_intervals.has THEN Raise("TypeError")
       ELSE IF \E c \in 1..nc : ~interval_ok(category_intervals.val[c]) THEN Raise("ValueError")
       ELSE Ok(<<"IF ">> \o str_join(<<" and ">>, conditions) \o <<" THEN ">> \o output.val \o tail)

----------------------------------------------------------------------------
(* RuleList.discretizer, the property: the discretizer of the first of the  *)
(* object's processors, which RuleList.__init__ adds when it is given a     *)
(* discretizer.  An object with no such attribute has processors = None.    *)
DiscreteProcessor(disc) == [type |-> "DiscreteProcessor", discretizer |-> disc]
OtherProcessor == [type |-> "Processor", discretizer |-> None]

discretizer_of(_processors) ==
    IF ~_processors.has THEN Raise("AttributeError")
    ELSE IF Len(_processors.val) = 0 THEN Raise("IndexError")
    ELSE IF _processors.val[1].type # "DiscreteProcessor" THEN Raise("AssertionError")
    ELSE Ok(_processors.val[1].discretizer)

(* RuleList.describe.  A discretizer: the features it cuts into intervals,  *)
(* and the interval of a category of such a feature.                        *)

Discretizer(continuous_features) == [continuous_features |-> continuous_features]
cat2intervals(disc, cat, idx) == <<cat, cat + 1>>

(* lines 585-595, the property having given disc: None for the discretizer *)
(* None, no entry for a rule whose first feature index is negative, else    *)
(* one entry for each condition                                             *)
intervals_of(disc, rule) ==
    IF ~disc.has THEN None
    ELSE IF rule.feature_indices[1] < 0 THEN Some(<<>>)
    ELSE Some([c \in 1..MinOf(Len(rule.feature_indices), Len(rule.categories)) |->
                  IF rule.feature_indices[c] \notin disc.val.continuous_features THEN None
                  ELSE Some(cat2intervals(disc.val, rule.categories[c], rule.feature_indices[c]))])

(* lines 596-599 *)
is_last(i, n) == i = n - 1
connective(i, n) == IF n > 1 /\ ~is_last(i, n) THEN <<"\nELSE ">> ELSE <<>>

(* line 580 *)
header(nrules) == <<"The rule list has ">> \o py_str(nrules) \o <<" of rules:\n\n     ">>

(* one rule's turn of the loop, lines 585-597: category_intervals as it is  *)
(* left, and the rule's line or the exception raised; prop is what reading  *)
(* the property discretizer gives                                           *)
describe_entry(rule, prop, feature_names) ==
    IF prop.kind # "ok" THEN [category_intervals |-> None, line |-> prop]
    ELSE IF prop.val.has /\ Len(rule.feature_indices) = 0
    THEN [category_intervals |-> Some(<<>>), line |-> Raise("IndexError")]
    ELSE TheOne({[category_intervals |-> category_intervals,
                  line |-> Rule_describe(rule, feature_names, category_intervals, "prob")] :
                    category_intervals \in {intervals_of(prop.val, rule)}})

RECURSIVE describe_loop(_, _, _, _, _)
describe_loop(rules, i, prop, feature_names, s) ==
    IF i >= Len(rules) THEN Ok(s)
    ELSE TheOne({IF entry.line.kind # "ok" THEN entry.line
                 ELSE describe_loop(rules, i + 1, prop, feature_names,
                                    s \o entry.line.val \o <<"\n">>
                                      \o connective(i, Len(rules))) :
                    entry \in {describe_entry(rules[i + 1], prop, feature_names)}})

RuleList_describe(rules, indices, _processors, feature_names) ==
    IF ~indices.has THEN Raise("TypeError")
    ELSE describe_loop(rules, 0, discretizer_of(_processors), feature_names,
                       header(Len(indices.val)))

----------------------------------------------------------------------------
(* SBRL._rule_name2rule *)

DefaultName == <<"d", "e", "f", "a", "u", "l", "t">>

(* the text of a clause that is read as its feature index *)
feature_text_whole(raw_rule, idx) == Slice(raw_rule, 0, idx)
feature_text(raw_rule, idx) == Slice(raw_rule, 1, idx)

(* the clause loop: feature index from raw_rule[1:idx], category from       *)
(* raw_rule[idx+1:], the first failure ending the parse                     *)
RECURSIVE parse_clauses(_, _, _)
parse_clauses(raw_rules, feature_indices, categories) ==
    IF Len(raw_rules) = 0 THEN Ok(<<feature_indices, categories>>)
    ELSE LET raw_rule == Head(raw_rules)
             idx == str_find(raw_rule, "=")
             f == py_int(feature_text(raw_rule, idx))
             c == py_int(SliceFrom(raw_rule, idx + 1))
         IN IF idx = -1 THEN Raise("ValueError")
            ELSE IF f.kind # "ok" THEN f
            ELSE IF c.kind # "ok" THEN c
            ELSE parse_clauses(Tail(raw_rules), Append(feature_indices, f.val),
                               Append(categories, c.val))

rule_name2rule(rule_name, prob, support) ==
    IF rule_name = DefaultName THEN Ok(Rule(<<-1>>, <<-1>>, prob, support))
    ELSE LET parsed == parse_clauses(str_split(StripEnds(rule_name), ","), <<>>, <<>>)
         IN IF parsed.kind # "ok" THEN parsed
            ELSE Ok(Rule(parsed.val[1], parsed.val[2], prob, support))

----------------------------------------------------------------------------
(* The traversals of SBRL.  Each loop body is an operator from the locals   *)
(* before the i-th iteration (i counted from 0) to the locals after it:     *)
(* [status, un_satisfied, out], status being "ok" or the exception raised.  *)

Locals(status, un_satisfied, out) ==
    [status |-> status, un_satisfied |-> un_satisfied, out |-> out]

(* out[i, :] = row, for an out of n_rules rows *)
SetRow(out, i, row) == [out EXCEPT ![i + 1] = row]

(* iterating the value is_satisfy returned and ANDing every item with the   *)
(* unclaimed mask: a list yields its masks, an array its scalars, and       *)
(* logical_and broadcasts a scalar over the mask                            *)
and_each(is_satisfied, un_satisfied) ==
    IF is_satisfied.kind = "list"
    THEN [c \in 1..Len(is_satisfied.val) |-> logical_and(is_satisfied.val[c], un_satisfied)]
    ELSE [c \in 1..Len(is_satisfied.val) |->
            [j \in 1..Len(un_satisfied) |-> is_satisfied.val[c] /\ un_satisfied[j]]]

(* a rule's row of decision_support: its raw matches that are unclaimed *)
support_raw(is_satisfied, un_satisfied) == is_satisfied
support_of(is_satisfied, un_satisfied) == logical_and(is_satisfied, un_satisfied)

(* the rows _predict_prob writes for a rule *)
satisfied_raw(is_satisfied, un_satisfied) == is_satisfied
satisfied_of(is_satisfied, un_satisfied) == logical_and(is_satisfied, un_satisfied)

(* the body of decision_support's loop *)
decision_support_body(rule, i, x, per_condition, nrules, loc) ==
    LET raw == is_satisfy(rule, x, per_condition)
        un_satisfied == loc.un_satisfied
    IN IF raw.kind \notin {"array", "list"} THEN Locals(raw.kind, un_satisfied, loc.out)
       ELSE IF per_condition
       THEN LET is_satisfied == and_each(raw, un_satisfied)
            IN IF Len(is_satisfied) = 0 THEN Locals("TypeError", un_satisfied, loc.out)
               ELSE LET satisfied == reduce_and(is_satisfied)
                        next == logical_xor(satisfied, un_satisfied)
                    IN IF i >= nrules THEN Locals("IndexError", next, loc.out)
                       ELSE IF Len(is_satisfied) # 1 THEN Locals("ValueError", next, loc.out)
                       ELSE Locals("ok", next, SetRow(loc.out, i, is_satisfied[1]))
       ELSE LET is_satisfied == support_of(raw.val, un_satisfied)
                next == logical_xor(is_satisfied, un_satisfied)
            IN IF i >= nrules THEN Locals("IndexError", next, loc.out)
               ELSE Locals("ok", next, SetRow(loc.out, i, is_satisfied))

(* the body of decision_path's loop *)
decision_path_body(rule, i, x, nrules, loc) ==
    LET satisfied == is_satisfy(rule, x, FALSE)
        un_satisfied == loc.un_satisfied
    IN IF satisfied.kind # "array" THEN Locals(satisfied.kind, un_satisfied, loc.out)
       ELSE IF i >= nrules THEN Locals("IndexError", un_satisfied, loc.out)
       ELSE Locals("ok", logical_xor(satisfied.val, un_satisfied),
                   SetRow(loc.out, i, un_satisfied))

(* the body of _predict_prob's loop: y[satisfied] = rule.output *)
predict_prob_body(rule, x, loc) ==
    LET is_satisfied == is_satisfy(rule, x, FALSE)
        un_satisfied == loc.un_satisfied
    IN IF is_satisfied.kind # "array" THEN Locals(is_satisfied.kind, un_satisfied, loc.out)
       ELSE LET satisfied == satisfied_of(is_satisfied.val, un_satisfied)
            IN Locals("ok", logical_xor(satisfied, un_satisfied),
                      [j \in 1..Len(loc.out) |->
                          IF satisfied[j] THEN rule.output ELSE loc.out[j]])

(* the operations, and the loop each of them runs *)
Ops == {"predict_prob", "predict", "decision_support", "decision_path", "compute_support"}

loop_body(op, rule, i, x, per_condition, nrules, loc) ==
    CASE op \in {"predict_prob", "predict"} -> predict_prob_body(rule, x, loc)
      [] op = "decision_path" -> decision_path_body(rule, i, x, nrules, loc)
      [] op = "decision_support" -> decision_support_body(rule, i, x, per_condition, nrules, loc)
      [] op = "compute_support" -> decision_support_body(rule, i, x, FALSE, nrules, loc)

(* the locals before the loop.  np.zeros for the boolean matrices; np.empty *)
(* for _predict_prob's y, whose rows hold whatever the memory held: garbage *)
loop_entry(op, x, nrules, garbage) ==
    Locals("ok", np_ones(x.shape[1]),
           IF op \in {"predict_prob", "predict"} THEN garbage
           ELSE [r \in 1..nrules |-> np_zeros(x.shape[1])])

(* compute_support's tally of one row: y[support], np.unique, and the       *)
(* indexed store into support_summary[i]                                    *)
(* unique_counts of one label in y[support] *)
count_of(support, y, label) == Cardinality({j \in 1..Len(y) : support[j] /\ y[j] = label})

(* support_summary[i, unique_labels] = unique_counts: column k is stored    *)
(* for the labels k and k - nclasses, in np.unique's ascending order, the   *)
(* later store staying                                                      *)
count_present(support, y, nclasses) ==
    [k \in 1..nclasses |->
        IF \E j \in 1..Len(y) : support[j] /\ (y[j] % nclasses) = k - 1 THEN 1 ELSE 0]
count_labels(support, y, nclasses) ==
    [k \in 1..nclasses |->
        IF count_of(support, y, k - 1) > 0 THEN count_of(support, y, k - 1)
        ELSE count_of(support, y, k - 1 - nclasses)]

label_ok(l, nclasses) == l < nclasses /\ l >= 0 - nclasses

compute_support_tally(supports, y, nclasses) ==
    LET bad(i) == \/ Len(y) # Len(supports[i])
                  \/ \E j \in 1..Len(y) : supports[i][j] /\ ~label_ok(y[j], nclasses)
    IN IF \E i \in 1..Len(supports) : bad(i) THEN Raise("IndexError")
       ELSE Ok([i \in 1..Len(supports) |-> count_labels(supports[i], y, nclasses)])

(* what the operation returns after the loop *)
loop_exit(op, y, nclasses, loc) ==
    CASE op = "predict" -> Ok([j \in 1..Len(loc.out) |-> argmax(loc.out[j])])
      [] op = "compute_support" -> compute_support_tally(loc.out, y, nclasses)
      [] OTHER -> Ok(loc.out)

(* a whole call, run alone: the loop over rule_list from iteration i on,    *)
(* to the locals it ends with and the number of iterations completed        *)
RECURSIVE run_loop(_, _, _, _, _, _, _)
run_loop(op, rules, i, x, per_condition, nrules, loc) ==
    IF i >= Len(rules) THEN [i |-> i, loc |-> loc]
    ELSE TheOne({IF next.status # "ok" THEN [i |-> i, loc |-> next]
                 ELSE run_loop(op, rules, i + 1, x, per_condition, nrules, next) :
                    next \in {loop_body(op, rules[i + 1], i, x, per_condition, nrules, loc)}})

run_result(op, y, nclasses, loc) ==
    IF loc.status # "ok" THEN Raise(loc.status) ELSE loop_exit(op, y, nclasses, loc)

run_alone(op, rules, nrules, nclasses, x, y, per_condition, garbage) ==
    TheOne({run_result(op, y, nclasses, end.loc) :
               end \in {run_loop(op, rules, 0, x, per_condition, nrules,
                                 loop_entry(op, x, nrules, garbage))}})

----------------------------------------------------------------------------
(* The data the specifications draw from. *)

Rows(w) == [1..w -> Categories]
Array(rows, w) == [shape |-> <<Len(rows), w>>, rows |-> rows]
Batches(w) == UNION {{Array(rows, w) : rows \in [1..n -> Rows(w)]} : n \in 0..MaxInst}
Width == Cardinality(Features)

(* the conditions the mining engine can return: at most rule_maxlen         *)
(* feature=category items over distinct features, in feature order          *)
Conditions ==
    UNION {{cs \in [1..k -> Features \X Categories] :
                \A a, b \in 1..k : a < b => cs[a][1] < cs[b][1]} : k \in 1..rule_maxlen}

(* the engine's rule name of given conditions: {<p>f=c,<p>f=c,...}, p being *)
(* the prefix put before every feature index                                *)
RECURSIVE join_clauses(_, _, _)
join_clauses(feature_indices, categories, prefix) ==
    IF Len(feature_indices) = 0 THEN <<>>
    ELSE (IF Len(feature_indices) > 1
          THEN join_clauses(SubSeq(feature_indices, 1, Len(feature_indices) - 1),
                            SubSeq(categories, 1, Len(categories) - 1), prefix) \o <<",">>
          ELSE <<>>)
         \o prefix \o py_str(feature_indices[Len(feature_indices)])
         \o <<"=">> \o py_str(categories[Len(categories)])

rule_text(feature_indices, categories, prefix) ==
    <<"{">> \o join_clauses(feature_indices, categories, prefix) \o <<"}">>

RECURSIVE SeqOf(_)
SeqOf(S) == IF S = {} THEN <<>> ELSE LET e == CHOOSE e \in S : TRUE IN <<e>> \o SeqOf(S \ {e})

(* the engine's naming table: every minable rule, then the default rule *)
EnginePrefix == <<"x">>
RuleNames ==
    LET cs == SeqOf(Conditions)
    IN [r \in 1..Len(cs) |->
           rule_text([a \in 1..Len(cs[r]) |-> cs[r][a][1]],
                     [a \in 1..Len(cs[r]) |-> cs[r][a][2]], EnginePrefix)]
       \o <<DefaultName>>

(* class-probability rows, all different, the first one a tie *)
Dist(k) == <<(5 * k) % 11, 10 - ((5 * k) % 11)>>
ProbTables == {[i \in 1..MaxRules |-> Dist(i + s)] : s \in 0..1}

(* what train_sbrl returns: the ordering (no rule twice), the probabilities *)
(* and the names                                                            *)
Orderings(n) ==
    {indices \in [1..n -> 0..(Len(RuleNames) - 1)] :
        \A a, b \in 1..n : a # b => indices[a] # indices[b]}
Mined(tables) ==
    UNION {{<<indices, SubSeq(t, 1, n), RuleNames>> :
                indices \in Orderings(n), t \in tables} : n \in 1..MaxRules}

(* training data: one instance of every class *)
TrainX == Array([j \in 1..Cardinality(Labels) |-> [f \in 1..Width |-> (j - 1) % Cardinality(Categories)]], Width)
TrainY == [j \in 1..Cardinality(Labels) |-> j - 1]

----------------------------------------------------------------------------
(* SBRL.train, as the fields of the object when the call ends and the      *)
(* exception it ended with ("ok" when it returned).                        *)

(* the rule of the loop's step i, idx = _rule_indices[i]: the parse of      *)
(* _rule_names[idx] with _rule_probs[i]                                     *)
rule_at_position(names, probs, i, idx) == rule_name2rule(names[i + 1], probs[i + 1], None)
rule_at(names, probs, i, idx) ==
    rule_name2rule(names[IF idx < 0 THEN idx + Len(names) + 1 ELSE idx + 1], probs[i + 1], None)

(* the loop that rebuilds _rule_list from the ordering *)
RECURSIVE build_rule_list(_, _, _, _, _)
build_rule_list(indices, probs, names, i, built) ==
    IF i >= Len(indices) THEN [raised |-> "ok", rule_list |-> built]
    ELSE LET idx == indices[i + 1]
         IN IF idx >= Len(names) \/ idx < 0 - Len(names) \/ i >= Len(probs)
            THEN [raised |-> "IndexError", rule_list |-> built]
            ELSE LET rule == rule_at(names, probs, i, idx)
                 IN IF rule.kind # "ok" THEN [raised |-> rule.kind, rule_list |-> built]
                    ELSE build_rule_list(indices, probs, names, i + 1, Append(built, rule.val))

train_fields(raised, rules, n_labels, x, _model) ==
    [raised |-> raised, n_classes |-> Some(n_labels), n_features |-> Some(x.shape[2]),
     rule_indices |-> Some(_model[1]), rule_probs |-> Some(_model[2]),
     rule_names |-> Some(_model[3]), rule_list |-> rules]

(* the end of train: compute_support on the training data, and its rows     *)
(* attached to the rules                                                    *)
train_support(built, n_labels, x, y, _model) ==
    IF built.raised # "ok" THEN train_fields(built.raised, built.rule_list, n_labels, x, _model)
    ELSE TheOne({
        IF support_summary.kind # "ok"
        THEN train_fields(support_summary.kind, built.rule_list, n_labels, x, _model)
        ELSE train_fields("ok",
                 [r \in 1..Len(built.rule_list) |->
                     IF r <= Len(support_summary.val)
                     THEN [built.rule_list[r] EXCEPT !.support = Some(support_summary.val[r])]
                     ELSE built.rule_list[r]], n_labels, x, _model) :
        support_summary \in {run_alone("compute_support", built.rule_list, Len(_model[1]),
                                       n_labels, x, y, FALSE, <<>>)}})

(* self._rule_list = [], on an object whose list was _rule_list *)
fresh_list(_rule_list) == <<>>

(* train on an object whose list was _rule_list *)
retrain(_rule_list, x, y, _model) ==
    TheOne({train_support(built, Cardinality({y[j] : j \in 1..Len(y)}), x, y, _model) :
               built \in {build_rule_list(_model[1], _model[2], _model[3], 0,
                                          fresh_list(_rule_list))}})

(* train on an object just constructed *)
train(x, y, _model) == retrain(<<>>, x, y, _model)

----------------------------------------------------------------------------
(* The state: one SBRL object, its callers' activations, and the inputs and *)
(* outcomes of the two pure functions.                                      *)

VARIABLES rule_indices, rule_probs, rule_names, rule_list, n_classes, n_features,
          processors, training, frame, parse, sat, report

model_vars == <<rule_indices, rule_probs, rule_names, rule_list, n_classes, n_features>>
vars == <<rule_indices, rule_probs, rule_names, rule_list, n_classes, n_features,
          processors, training, frame, parse, sat, report>>

Callers == {1, 2}
Pending == [kind |-> "pending", val |-> <<>>]

IdleFrame ==
    [pc |-> "idle", op |-> "none", x |-> Array(<<>>, 0), y |-> <<>>, per_condition |-> FALSE,
     garbage |-> <<>>, i |-> 0, loc |-> Locals("ok", <<>>, <<>>), result |-> Pending]

IdleParse == [text |-> <<>>, feature_indices |-> <<>>, categories |-> <<>>,
              prefix |-> <<>>, out |-> Pending]
IdleTraining == [x |-> Array(<<>>, 0), y |-> <<>>, _model |-> <<>>, out |-> Pending]
IdleReport == [op |-> "none", feature_names |-> None, rule |-> None, label |-> "none",
               category_intervals |-> None, out |-> Pending]
IdleSat == [rule |-> Rule(<<-1>>, <<-1>>, Dist(1), None), x |-> Array(<<>>, 0),
            whole |-> Pending, parts |-> Pending]

(* SBRL.__init__ *)
Constructed ==
    /\ rule_indices = None
    /\ rule_probs = None
    /\ rule_names = None
    /\ rule_list = <<>>
    /\ n_classes = None
    /\ n_features = None

(* the object after a train call that returned *)
Trained(tables) ==
    \E m \in Mined(tables) :
        \E t \in {train(TrainX, TrainY, m)} :
           /\ t.raised = "ok"
           /\ rule_indices = t.rule_indices
           /\ rule_probs = t.rule_probs
           /\ rule_names = t.rule_names
           /\ rule_list = t.rule_list
           /\ n_classes = t.n_classes
           /\ n_features = t.n_features

(* SBRL.train(x, y), train_sbrl returning _model: the fields as the call    *)
(* leaves them, whether it returns or raises                                *)
Train(x, y, _model) ==
    /\ \E t \in {retrain(rule_list, x, y, _model)} :
           /\ rule_indices' = t.rule_indices
           /\ rule_probs' = t.rule_probs
           /\ rule_names' = t.rule_names
           /\ rule_list' = t.rule_list
           /\ n_classes' = t.n_classes
           /\ n_features' = t.n_features
           /\ training' = [x |-> x, y |-> y, _model |-> _model,
                           out |-> IF t.raised = "ok" THEN Ok(<<>>) ELSE Raise(t.raised)]
    /\ UNCHANGED <<processors, frame, parse, sat, report>>

(* the n_rules property *)
n_rules == Len(rule_indices.val)

----------------------------------------------------------------------------
(* A call of one of the evaluation operations by caller c: entering it,     *)
(* one iteration of its loop over _rule_list, and leaving it.               *)

Call(c, op, x, y, per_condition, garbage) ==
    /\ frame[c].pc = "idle"
    /\ frame' = [frame EXCEPT ![c] =
           IF ~rule_indices.has
           THEN [IdleFrame EXCEPT !.pc = "done", !.op = op, !.x = x, !.y = y,
                                  !.per_condition = per_condition, !.garbage = garbage,
                                  !.result = Raise(IF op \in {"predict_prob", "predict"}
                                                   THEN "AttributeError" ELSE "TypeError")]
           ELSE [pc |-> "loop", op |-> op, x |-> x, y |-> y, per_condition |-> per_condition,
                 garbage |-> garbage, i |-> 0, loc |-> loop_entry(op, x, n_rules, garbage),
                 result |-> Pending]]
    /\ UNCHANGED <<model_vars, processors, training, parse, sat, report>>

(* Iterate, had un_satisfied been kept on the object instead of in a local *)
Iterate_shared(c) ==
    /\ frame[c].pc = "loop"
    /\ frame[c].i < Len(rule_list)
    /\ \E f \in {frame[c]} :
         \E loc \in {loop_body(f.op, rule_list[f.i + 1], f.i, f.x, f.per_condition,
                                n_rules, f.loc)} :
           frame' = [d \in Callers |->
              IF d = c
              THEN IF loc.status = "ok"
                   THEN [f EXCEPT !.i = f.i + 1, !.loc = loc]
                   ELSE [f EXCEPT !.pc = "done", !.loc = loc, !.result = Raise(loc.status)]
              ELSE IF frame[d].pc = "loop" /\ Len(frame[d].loc.un_satisfied) = Len(loc.un_satisfied)
                   THEN [frame[d] EXCEPT !.loc.un_satisfied = loc.un_satisfied]
                   ELSE frame[d]]
    /\ UNCHANGED <<model_vars, processors, training, parse, sat, report>>

Iterate(c) ==
    /\ frame[c].pc = "loop"
    /\ frame[c].i < Len(rule_list)
    /\ \E f \in {frame[c]} :
         \E loc \in {loop_body(f.op, rule_list[f.i + 1], f.i, f.x, f.per_condition,
                                n_rules, f.loc)} :
           frame' = [frame EXCEPT ![c] =
              IF loc.status = "ok"
              THEN [f EXCEPT !.i = f.i + 1, !.loc = loc]
              ELSE [f EXCEPT !.pc = "done", !.loc = loc, !.result = Raise(loc.status)]]
    /\ UNCHANGED <<model_vars, processors, training, parse, sat, report>>

Return(c) ==
    /\ frame[c].pc = "loop"
    /\ frame[c].i >= Len(rule_list)
    /\ frame' = [frame EXCEPT ![c] =
           [frame[c] EXCEPT !.pc = "done",
                            !.result = loop_exit(frame[c].op, frame[c].y, n_classes.val, frame[c].loc)]]
    /\ UNCHANGED <<model_vars, processors, training, parse, sat, report>>

(* A whole call at once: Call, every Iterate and Return. *)
Invoke(c, op, x, y, per_condition, garbage) ==
    /\ frame[c].pc = "idle"
    /\ rule_indices.has
    /\ \E end \in {run_loop(op, rule_list, 0, x, per_condition, n_rules,
                              loop_entry(op, x, n_rules, garbage))} :
          frame' = [frame EXCEPT ![c] =
              [pc |-> "done", op |-> op, x |-> x, y |-> y, per_condition |-> per_condition,
               garbage |-> garbage, i |-> end.i, loc |-> end.loc,
               result |-> run_result(op, y, n_classes.val, end.loc)]]
    /\ UNCHANGED <<model_vars, processors, training, parse, sat, report>>

(* the inputs of a call *)
LabelVectors(n) == [1..n -> Labels]

(* np.empty stores nothing: a row of y holds whatever the memory held, any  *)
(* doubles at all.  A double is taken on the scale of the probabilities, in *)
(* tenths: -1 for any value below 0, 0 to 10 for 0.0 to 1.0, 11 for any     *)
(* value above 1, and 12 for NaN, which np.argmax takes for the largest.    *)
Floats == (0 - 1)..12
Uninitialised(nclasses) == [1..nclasses -> Floats]
Garbage(n, nclasses) == [1..n -> Uninitialised(nclasses)]

(* The memory contents the calls are given.  A row the call leaves          *)
(* unwritten is returned as the memory held it, and is given every content. *)
(* A row the call overwrites loses its content with the store, and all such *)
(* rows are given one content: Stale, which is no rule's output, or the     *)
(* output of the first rule, as when the memory is that of an earlier       *)
(* result.                                                                  *)
Stale(nclasses) == [k \in 1..nclasses |-> 0 - 1]
Unwritten(rules, nrules, x, nclasses) ==
    LET stale == [j \in 1..x.shape[1] |-> Stale(nclasses)]
        end == run_loop("predict_prob", rules, 0, x, FALSE, nrules,
                        loop_entry("predict_prob", x, nrules, stale))
    IN IF end.loc.status # "ok" THEN {}
       ELSE {j \in 1..x.shape[1] : end.loc.out[j] = Stale(nclasses)}
Overwritten(rules, nclasses) ==
    {Stale(nclasses)} \cup {rules[k].output : k \in {k \in 1..Len(rules) : k = 1}}
GarbageRead(rules, nrules, x, nclasses) ==
    UNION {{[j \in 1..x.shape[1] |-> IF j \in U THEN f[j] ELSE r] :
               f \in [U -> Uninitialised(nclasses)], r \in Overwritten(rules, nclasses)} :
           U \in {Unwritten(rules, nrules, x, nclasses)}}

(* n_classes = self._rule_probs.shape[1] *)
probs_classes == Len(rule_probs.val[1])

----------------------------------------------------------------------------
(* The specifications of a single caller: each is a trained object and the  *)
(* calls of one operation on batches of n_features columns.                 *)

IdleCalls ==
    /\ frame = [c \in Callers |-> IdleFrame]
    /\ parse = IdleParse
    /\ sat = IdleSat
    /\ report = IdleReport
    /\ training = IdleTraining

Idle == IdleCalls /\ processors = Some(<<>>)

OneTable == {CHOOSE t \in ProbTables : TRUE}

(* the list the mining engine is meant to return: the default rule last *)
WellFormed == Len(rule_list) > 0 /\ is_default(rule_list[Len(rule_list)])

(* decision_support(x) *)
InitSupport == Trained(OneTable) /\ Idle

NextSupport ==
    \E c \in {1} :
        /\ frame[c].pc = "idle"
        /\ \E x \in Batches(n_features.val) : Invoke(c, "decision_support", x, <<>>, FALSE, <<>>)

SpecSupport == InitSupport /\ [][NextSupport]_vars

(* decision_support(x, per_condition=True) *)
NextPerCondition ==
    \E c \in {1} :
        /\ frame[c].pc = "idle"
        /\ \E x \in Batches(n_features.val) : Invoke(c, "decision_support", x, <<>>, TRUE, <<>>)

SpecPerCondition == InitSupport /\ [][NextPerCondition]_vars

(* decision_path(x) *)
NextPath ==
    \E c \in {1} :
        /\ frame[c].pc = "idle"
        /\ \E x \in Batches(n_features.val) : Invoke(c, "decision_path", x, <<>>, FALSE, <<>>)

SpecPath == InitSupport /\ [][NextPath]_vars

(* compute_support(x, y), on the training data of a well-formed list *)
InitCompute == Trained(OneTable) /\ WellFormed /\ Idle

NextCompute ==
    \E c \in {1} :
        /\ frame[c].pc = "idle"
        /\ \E x \in Batches(n_features.val) : \E y \in LabelVectors(x.shape[1]) :
               Invoke(c, "compute_support", x, y, FALSE, <<>>)

SpecCompute == InitCompute /\ [][NextCompute]_vars

(* predict_prob(x).  A list that holds the default rule writes every row;   *)
(* a list without one leaves the rows of unmatched instances unwritten, and *)
(* is called on one instance at a time, its row given every content.        *)
HasDefault(rules) == \E k \in 1..Len(rules) : is_default(rules[k])
ProbBatches(rules, w) ==
    IF HasDefault(rules) THEN Batches(w) ELSE {x \in Batches(w) : x.shape[1] <= 1}

InitPredict == Trained(OneTable) /\ Idle

NextPredict ==
    \E c \in {1} :
        /\ frame[c].pc = "idle"
        /\ \E x \in ProbBatches(rule_list, n_features.val) :
              \E g \in GarbageRead(rule_list, n_rules, x, probs_classes) :
                 Invoke(c, "predict_prob", x, <<>>, FALSE, g)

SpecPredict == InitPredict /\ [][NextPredict]_vars

----------------------------------------------------------------------------
(* Rule.is_satisfy on its own: a rule, a batch, and the two modes. *)

SatisfyRules ==
    {Rule(<<-1>>, <<-1>>, Dist(1), None)} \cup
    UNION {{Rule([a \in 1..k |-> cs[a][1]], [a \in 1..k |-> cs[a][2]], Dist(1), None) :
               cs \in [1..k -> Features \X Categories]} : k \in 1..rule_maxlen}

InitSatisfy ==
    /\ Constructed
    /\ processors = Some(<<>>)
    /\ report = IdleReport
    /\ training = IdleTraining
    /\ frame = [c \in Callers |-> IdleFrame]
    /\ parse = IdleParse
    /\ \E rule \in SatisfyRules, x \in Batches(Width) :
          sat = [rule |-> rule, x |-> x, whole |-> Pending, parts |-> Pending]

SatisfyWhole ==
    /\ sat.whole = Pending
    /\ sat' = [sat EXCEPT !.whole = is_satisfy(sat.rule, sat.x, FALSE)]
    /\ UNCHANGED <<model_vars, processors, training, frame, parse, report>>

SatisfyParts ==
    /\ sat.parts = Pending
    /\ sat' = [sat EXCEPT !.parts = is_satisfy(sat.rule, sat.x, TRUE)]
    /\ UNCHANGED <<model_vars, processors, training, frame, parse, report>>

NextSatisfy == SatisfyWhole \/ SatisfyParts

SpecSatisfy == InitSatisfy /\ [][NextSatisfy]_vars

----------------------------------------------------------------------------
(* _rule_name2rule on its own: the text of given conditions, parsed. *)

RECURSIVE Pow10(_)
Pow10(n) == IF n = 0 THEN 1 ELSE 10 * Pow10(n - 1)
ParseFeatures(k) == IF k = 1 THEN 0..(Pow10(MaxDigits) - 1) ELSE {0, 1, Pow10(MaxDigits - 1) + 2}
ParseCategories == Categories \cup {12}
Prefixes == {<<>>, <<"x">>, <<"V">>}

InitParse ==
    /\ Constructed
    /\ processors = Some(<<>>)
    /\ report = IdleReport
    /\ training = IdleTraining
    /\ frame = [c \in Callers |-> IdleFrame]
    /\ sat = IdleSat
    /\ \E k \in 1..MaxClauses :
          \E fs \in [1..k -> ParseFeatures(k)], cs \in [1..k -> ParseCategories],
             prefix \in Prefixes :
             parse = [text |-> rule_text(fs, cs, prefix), feature_indices |-> fs,
                      categories |-> cs, prefix |-> prefix, out |-> Pending]

ParseName ==
    /\ parse.out = Pending
    /\ parse' = [parse EXCEPT !.out = rule_name2rule(parse.text, Dist(1), None)]
    /\ UNCHANGED <<model_vars, processors, training, frame, sat, report>>

NextParse == ParseName

SpecParse == InitParse /\ [][NextParse]_vars

----------------------------------------------------------------------------
(* Calls whose batch has any number of columns and whose label vector has   *)
(* any length, on a well-formed rule list (one that ends in the default     *)
(* rule) of one or two rules.                                               *)

AnyBatches == UNION {Batches(w) : w \in 1..(Width + 1)}
AnyLabelVectors == UNION {LabelVectors(n) : n \in 0..MaxInst}

InitShape == Trained(OneTable) /\ WellFormed /\ Len(rule_list) <= 2 /\ Idle

NextShape ==
    \E c \in {1} :
        \/ \E x \in AnyBatches : Call(c, "decision_support", x, <<>>, FALSE, <<>>)
        \/ \E x \in AnyBatches : \E g \in GarbageRead(rule_list, n_rules, x, probs_classes) :
               Call(c, "predict_prob", x, <<>>, FALSE, g)
        \/ \E x \in AnyBatches : \E y \in AnyLabelVectors :
               Call(c, "compute_support", x, y, FALSE, <<>>)
        \/ Iterate(c)
        \/ Return(c)

SpecShape == InitShape /\ [][NextShape]_vars

----------------------------------------------------------------------------
(* Several callers on one trained rule list, every operation, their loop    *)
(* iterations interleaved.                                                  *)

OneRowBatches == {x \in Batches(Width) : x.shape[1] = 1}

InitConcurrent == Trained(OneTable) /\ WellFormed /\ Len(rule_list) = 2 /\ Idle

NextConcurrent ==
    \E c \in Callers :
        \/ \E x \in OneRowBatches : \E g \in GarbageRead(rule_list, n_rules, x, probs_classes) :
               \E op \in {"predict_prob", "predict"} : Call(c, op, x, <<>>, FALSE, g)
        \/ \E x \in OneRowBatches : \E pc \in BOOLEAN :
               Call(c, "decision_support", x, <<>>, pc, <<>>)
        \/ \E x \in OneRowBatches : Call(c, "decision_path", x, <<>>, FALSE, <<>>)
        \/ \E x \in OneRowBatches : \E y \in LabelVectors(1) :
               Call(c, "compute_support", x, y, FALSE, <<>>)
        \/ Iterate(c)
        \/ Return(c)

SpecConcurrent == InitConcurrent /\ [][NextConcurrent]_vars

(* RuleList.describe(feature_names, rt_str=True) on a trained object, built *)
(* with a discretizer or without one (and then with no processor, with no  *)
(* processors attribute, or with another processor first)                   *)
Processors ==
    {None, Some(<<>>), Some(<<OtherProcessor>>)}
    \cup {Some(<<DiscreteProcessor(Some(Discretizer(cf)))>>) : cf \in SUBSET Features}
FeatureNames == {None, Some([f \in 1..Width |-> <<"f", Digits[f]>>])}

InitDescribe == Trained(OneTable) /\ IdleCalls /\ processors \in Processors

Describe(feature_names) ==
    /\ report.out = Pending
    /\ report' = [op |-> "RuleList.describe", feature_names |-> feature_names, rule |-> None,
                  label |-> "prob", category_intervals |-> None,
                  out |-> RuleList_describe(rule_list, rule_indices, processors, feature_names)]
    /\ UNCHANGED <<model_vars, processors, training, frame, parse, sat>>

NextDescribe == \E feature_names \in FeatureNames : Describe(feature_names)

SpecDescribe == InitDescribe /\ [][NextDescribe]_vars

(* train, again and again on the same object.  The first training is given  *)
(* any mining result; a later one a short list, a list under another        *)
(* probability table, a naming table with a clause that has no "=", or an   *)
(* ordering that names a rule the table has not.  The data are one instance *)
(* of every class, three instances, or instances of the last class only.    *)
TrainX3 ==
    Array(<<[f \in 1..Width |-> 0], [f \in 1..Width |-> IF f = 1 THEN 0 ELSE 1],
            [f \in 1..Width |-> 1]>>, Width)
TrainSets ==
    {<<TrainX, TrainY>>, <<TrainX3, <<0, 1, 1>>>>, <<TrainX, [j \in 1..Len(TrainY) |-> 1]>>}

DefaultId == Len(RuleNames) - 1
Remined ==
    {<<<<DefaultId>>, <<Dist(4)>>, RuleNames>>,
     <<<<1, 0, DefaultId>>, <<Dist(5), Dist(6), Dist(7)>>, RuleNames>>,
     <<<<0, 1>>, <<Dist(1), Dist(2)>>, <<RuleNames[1], <<"{", "x", "0", "}">>>>>>,
     <<<<0, Len(RuleNames)>>, <<Dist(1), Dist(2)>>, RuleNames>>}

InitTrain == Constructed /\ Idle

NextTrain ==
    \E data \in TrainSets :
        \E _model \in (IF rule_indices.has THEN Remined ELSE Mined(OneTable)) :
            Train(data[1], data[2], _model)

SpecTrain == InitTrain /\ [][NextTrain]_vars

(* One rule, its feature indices features or the sentinel -1 at any         *)
(* position: is_satisfy on a batch, and the rule's entry of                 *)
(* RuleList.describe (lines 585-597) on an object built with a discretizer. *)
SentinelRules ==
    {Rule(<<-1>>, <<-1>>, Dist(1), None)} \cup
    UNION {{Rule(fi, cats, Dist(1), None) :
               fi \in [1..k -> Features \cup {-1}], cats \in [1..k -> Categories]} :
           k \in 1..rule_maxlen}

InitSentinel ==
    /\ Constructed
    /\ processors \in {p \in Processors : discretizer_of(p).kind = "ok"}
    /\ report = IdleReport
    /\ training = IdleTraining
    /\ frame = [c \in Callers |-> IdleFrame]
    /\ parse = IdleParse
    /\ \E rule \in SentinelRules, x \in Batches(Width) :
          sat = [rule |-> rule, x |-> x, whole |-> Pending, parts |-> Pending]

DescribeEntry(feature_names) ==
    /\ report.out = Pending
    /\ \E entry \in {describe_entry(sat.rule, discretizer_of(processors), feature_names)} :
          report' = [op |-> "Rule.describe", feature_names |-> feature_names,
                     rule |-> Some(sat.rule), label |-> "prob",
                     category_intervals |-> entry.category_intervals,
                     out |-> entry.line]
    /\ UNCHANGED <<model_vars, processors, training, frame, parse, sat>>

NextSentinel ==
    \/ SatisfyWhole
    \/ SatisfyParts
    \/ \E feature_names \in FeatureNames : DescribeEntry(feature_names)

SpecSentinel == InitSentinel /\ [][NextSentinel]_vars

----------------------------------------------------------------------------
(* The vocabulary of the properties, stated on rules and rows directly. *)

IsDefaultRule(rule) == rule.feature_indices = <<-1>>
EndsInDefault == Len(rule_list) > 0 /\ IsDefaultRule(rule_list[Len(rule_list)])

(* all of the rule's conditions hold for the row *)
Matches(rule, row) ==
    \/ IsDefaultRule(rule)
    \/ \A a \in 1..Len(rule.feature_indices) : row[rule.feature_indices[a] + 1] = rule.categories[a]

(* no rule before the i-th (i from 1) matches the row *)
Reaches(rules, i, row) == \A k \in 1..(i - 1) : ~Matches(rules[k], row)

(* the position of the earliest rule that matches the row, 0 when none does *)
FirstMatch(rules, row) ==
    IF \E k \in 1..Len(rules) : Matches(rules[k], row)
    THEN CHOOSE k \in 1..Len(rules) : Matches(rules[k], row) /\ Reaches(rules, k, row)
    ELSE 0

Swap(rules, a, b) == [rules EXCEPT ![a] = rules[b], ![b] = rules[a]]

RECURSIVE SumColumn(_, _)
SumColumn(matrix, k) ==
    IF Len(matrix) = 0 THEN 0
    ELSE SumColumn(SubSeq(matrix, 1, Len(matrix) - 1), k) + matrix[Len(matrix)][k]

Returned(c, op) == frame[c].pc = "done" /\ frame[c].op = op
NInstances(c) == frame[c].x.shape[1]
Row(c, j) == frame[c].x.rows[j]

----------------------------------------------------------------------------
(* C1. Total coverage: when the last rule is the default rule,             *)
(* decision_support (per_condition=False) returns a boolean matrix of       *)
(* n_rules rows and n_instances columns, and every column has exactly one   *)
(* true cell.                                                               *)
C1_TotalCoverage ==
    \A c \in Callers :
        (Returned(c, "decision_support") /\ ~frame[c].per_condition /\ EndsInDefault) =>
            /\ frame[c].result.kind = "ok"
            /\ Len(frame[c].result.val) = n_rules
            /\ \A i \in 1..n_rules : frame[c].result.val[i] \in [1..NInstances(c) -> BOOLEAN]
            /\ \A j \in 1..NInstances(c) :
                  Cardinality({i \in 1..n_rules : frame[c].result.val[i][j]}) = 1

(* a returned call on three rules ending in the default, where one instance *)
(* matches both of the first two rules and another falls to the default     *)
C1_Witness ==
    \E c \in Callers :
        /\ Returned(c, "decision_support") /\ ~frame[c].per_condition /\ EndsInDefault
        /\ Len(rule_list) = 3 /\ ~IsDefaultRule(rule_list[1]) /\ ~IsDefaultRule(rule_list[2])
        /\ frame[c].result.kind = "ok"
        /\ \E j \in 1..NInstances(c) :
              Matches(rule_list[1], Row(c, j)) /\ Matches(rule_list[2], Row(c, j))
        /\ \E j \in 1..NInstances(c) : frame[c].result.val[3][j]

(* C2. First-match precedence: the row predict_prob writes for an instance  *)
(* is the output of the earliest rule, in list order, whose conditions all  *)
(* hold for it; and with that rule swapped with a later rule that matches   *)
(* the instance too, the instance's prediction is the later rule's output.  *)
C2_FirstMatch ==
    \A c \in Callers :
        Returned(c, "predict_prob") =>
            /\ frame[c].result.kind = "ok"
            /\ \A j \in 1..NInstances(c) :
                  \E m \in {FirstMatch(rule_list, Row(c, j))} :
                     m > 0 =>
                        /\ frame[c].result.val[j] = rule_list[m].output
                        /\ \A b \in (m + 1)..Len(rule_list) :
                              Matches(rule_list[b], Row(c, j)) =>
                                 run_alone("predict_prob", Swap(rule_list, m, b), n_rules,
                                           n_classes.val, frame[c].x, <<>>, FALSE,
                                           frame[c].garbage).val[j] = rule_list[b].output

(* a returned call on a batch of two instances: one matches two non-default *)
(* rules with different outputs and has the first one's, the other matches  *)
(* only the second of them and has the second one's                         *)
C2_Witness ==
    \E c \in Callers :
        /\ Returned(c, "predict_prob")
        /\ Len(rule_list) = 3
        /\ ~IsDefaultRule(rule_list[1]) /\ ~IsDefaultRule(rule_list[2])
        /\ rule_list[1].output # rule_list[2].output
        /\ \E j, h \in 1..NInstances(c) :
              /\ j # h
              /\ Matches(rule_list[1], Row(c, j)) /\ Matches(rule_list[2], Row(c, j))
              /\ frame[c].result.val[j] = rule_list[1].output
              /\ ~Matches(rule_list[1], Row(c, h)) /\ Matches(rule_list[2], Row(c, h))
              /\ frame[c].result.val[h] = rule_list[2].output

(* C3. Default absorption: when the last rule is the default rule, the      *)
(* unclaimed mask of predict_prob is empty after the last rule, every row   *)
(* of the result is the output of a rule that matches its instance, and an  *)
(* instance that matches no non-default rule has the output of the default  *)
(* rule (the earliest one, should the list hold several).                   *)
C3_DefaultAbsorption ==
    \A c \in Callers :
        (frame[c].op = "predict_prob" /\ EndsInDefault) =>
            /\ (frame[c].pc = "done" \/ (frame[c].pc = "loop" /\ frame[c].i = Len(rule_list))) =>
                  \A j \in 1..NInstances(c) : ~frame[c].loc.un_satisfied[j]
            /\ frame[c].pc = "done" =>
                  /\ frame[c].result.kind = "ok"
                  /\ \A j \in 1..NInstances(c) :
                        /\ \E k \in 1..Len(rule_list) :
                              /\ Matches(rule_list[k], Row(c, j))
                              /\ frame[c].result.val[j] = rule_list[k].output
                        /\ (\A k \in 1..Len(rule_list) :
                               Matches(rule_list[k], Row(c, j)) => IsDefaultRule(rule_list[k]))
                           => \E d \in 1..Len(rule_list) :
                                 /\ IsDefaultRule(rule_list[d])
                                 /\ \A k \in 1..(d - 1) : ~IsDefaultRule(rule_list[k])
                                 /\ frame[c].result.val[j] = rule_list[d].output

(* a returned call on a batch of two instances, the memory of y holding the *)
(* first rule's output in both rows: one instance matches no non-default    *)
(* rule, its row is as the memory held it when the list is run without its  *)
(* default rule, and is the default rule's output in the result; the other  *)
(* instance matches a non-default rule                                      *)
C3_Witness ==
    \E c \in Callers :
        /\ Returned(c, "predict_prob") /\ EndsInDefault /\ Len(rule_list) = 3
        /\ ~IsDefaultRule(rule_list[1]) /\ ~IsDefaultRule(rule_list[2])
        /\ \E j, h \in 1..NInstances(c) :
              /\ j # h
              /\ ~Matches(rule_list[1], Row(c, j)) /\ ~Matches(rule_list[2], Row(c, j))
              /\ frame[c].garbage[j] = rule_list[1].output
              /\ run_alone("predict_prob", SubSeq(rule_list, 1, 2), n_rules, n_classes.val,
                           frame[c].x, <<>>, FALSE, frame[c].garbage).val[j]
                    = rule_list[1].output
              /\ frame[c].result.val[j] = rule_list[3].output
              /\ frame[c].result.val[j] # frame[c].garbage[j]
              /\ Matches(rule_list[2], Row(c, h))

(* C4. Support conservation: when the last rule is the default rule and    *)
(* the labels are classes 0..n_classes-1, the per-rule class counts of      *)
(* compute_support, summed over the rules, are the batch's label histogram. *)
C4_SupportConservation ==
    \A c \in Callers :
        (Returned(c, "compute_support") /\ EndsInDefault
            /\ Len(frame[c].y) = NInstances(c)
            /\ \A j \in 1..Len(frame[c].y) : frame[c].y[j] \in 0..(n_classes.val - 1)) =>
            /\ frame[c].result.kind = "ok"
            /\ Len(frame[c].result.val) = n_rules
            /\ \A k \in 1..n_classes.val :
                  SumColumn(frame[c].result.val, k)
                     = Cardinality({j \in 1..Len(frame[c].y) : frame[c].y[j] = k - 1})

(* a returned call where two instances of one class are captured by one     *)
(* non-default rule, or instances of two classes by different rules         *)
C4_Witness ==
    \E c \in Callers :
        /\ Returned(c, "compute_support") /\ EndsInDefault /\ Len(rule_list) >= 2
        /\ ~IsDefaultRule(rule_list[1])
        /\ frame[c].result.kind = "ok"
        /\ \E k \in 1..n_classes.val : frame[c].result.val[1][k] >= 2
        /\ \E k \in 1..n_classes.val : SumColumn(frame[c].result.val, k) >= 2

(* C5. decision_path reachability: decision_path[i][j] is true exactly when *)
(* no rule before rule i matches instance j, so an instance a rule claimed  *)
(* is false in every later row.                                             *)
C5_PathReachability ==
    \A c \in Callers :
        Returned(c, "decision_path") =>
            /\ frame[c].result.kind = "ok"
            /\ \A i \in 1..Len(rule_list) : \A j \in 1..NInstances(c) :
                  frame[c].result.val[i][j] = Reaches(rule_list, i, Row(c, j))

(* C6. Per-condition mode: decision_support(x, per_condition=True)          *)
(* completes for every rule list and batch, and its unclaimed mask after    *)
(* each rule holds the instances that no rule so far matches, as it does    *)
(* with per_condition=False.                                                *)
C6_PerConditionCompletes ==
    \A c \in Callers :
        (frame[c].op = "decision_support" /\ frame[c].per_condition) =>
            /\ frame[c].pc = "done" => frame[c].result.kind = "ok"
            /\ \A j \in 1..NInstances(c) :
                  frame[c].loc.un_satisfied[j] = Reaches(rule_list, frame[c].i + 1, Row(c, j))

(* C7. Per-condition decomposition: for a non-default rule the elementwise  *)
(* AND of the masks is_satisfy returns with per_condition=True is the mask  *)
(* it returns with per_condition=False; for the default rule both modes     *)
(* return the all-true mask of length n_instances.                          *)
C7_Decomposition ==
    (sat.whole # Pending /\ sat.parts # Pending) =>
        IF IsDefaultRule(sat.rule)
        THEN /\ sat.whole = [kind |-> "array", val |-> [j \in 1..sat.x.shape[1] |-> TRUE]]
             /\ sat.parts = sat.whole
        ELSE /\ sat.whole.kind = "array"
             /\ sat.parts.kind = "list"
             /\ Len(sat.parts.val) = Len(sat.rule.feature_indices)
             /\ Len(sat.whole.val) = sat.x.shape[1]
             /\ \A j \in 1..sat.x.shape[1] :
                   sat.whole.val[j] = (\A a \in 1..Len(sat.parts.val) : sat.parts.val[a][j])

(* both modes computed for a rule of two conditions, on a batch where one   *)
(* instance satisfies only the first condition and another satisfies both   *)
C7_Witness ==
    /\ sat.whole # Pending /\ sat.parts # Pending
    /\ Len(sat.rule.feature_indices) = 2
    /\ sat.parts.kind = "list"
    /\ \E j \in 1..sat.x.shape[1] : sat.parts.val[1][j] /\ ~sat.parts.val[2][j]
    /\ \E j \in 1..sat.x.shape[1] : sat.whole.val[j]

(* C8, as stated. Round-trip naming: parsing the text {f_1=c_1,...,f_k=c_k} *)
(* yields feature_indices = [f_1..f_k] and categories = [c_1..c_k], the     *)
(* whole substring before '=' being read as the feature index.              *)
C8_RoundTripAsStated ==
    (parse.out # Pending /\ parse.prefix = <<>>) =>
        /\ parse.out.kind = "ok"
        /\ parse.out.val.feature_indices = parse.feature_indices
        /\ parse.out.val.categories = parse.categories

(* C8, amended. Parsing the text {pf_1=c_1,...,pf_k=c_k}, every feature     *)
(* index preceded by one prefix character p, yields feature_indices =       *)
(* [f_1..f_k] and categories = [c_1..c_k] in the same order: the first      *)
(* character of each clause is skipped, the rest before '=' is the feature  *)
(* index and the substring after '=' the category.                          *)
C8_RoundTripPrefixed ==
    (parse.out # Pending /\ Len(parse.prefix) = 1) =>
        /\ parse.out.kind = "ok"
        /\ parse.out.val.feature_indices = parse.feature_indices
        /\ parse.out.val.categories = parse.categories

(* a parsed text of several prefixed clauses, one feature index of two or   *)
(* more digits, the feature indices not in increasing order                 *)
C8_Witness ==
    /\ parse.out # Pending /\ Len(parse.prefix) = 1
    /\ Len(parse.feature_indices) >= 2
    /\ parse.feature_indices[1] >= 10 /\ parse.feature_indices[2] < 10
    /\ parse.out.kind = "ok"

(* C9. Shape validation: a call whose batch has not n_features columns, or  *)
(* compute_support with a label vector of another length than the batch,    *)
(* runs no iteration of the traversal and returns no result.                *)
C9_ShapeValidation ==
    \A c \in Callers :
        (/\ frame[c].pc # "idle"
         /\ \/ frame[c].x.shape[2] # n_features.val
            \/ frame[c].op = "compute_support" /\ Len(frame[c].y) # NInstances(c)) =>
            /\ frame[c].i = 0
            /\ frame[c].result.kind # "ok"

(* C10. Concurrent evaluation: under every interleaving of the callers'     *)
(* calls, a call returns what it returns when run alone on the same rule    *)
(* list, batch and memory, and no step changes the rule list, the rules'    *)
(* supports, n_rules, n_classes or n_features.                              *)
C10_AsAlone ==
    \A c \in Callers :
        frame[c].pc = "done" =>
            frame[c].result = run_alone(frame[c].op, rule_list, n_rules, n_classes.val,
                                        frame[c].x, frame[c].y, frame[c].per_condition,
                                        frame[c].garbage)

C10_ConcurrentSafe == [](C10_AsAlone) /\ [][UNCHANGED model_vars]_vars

(* one caller has returned while another is between two iterations of a     *)
(* different operation on a different batch                                 *)
C10_Witness ==
    \E c, d \in Callers :
        /\ c # d
        /\ frame[c].pc = "done" /\ frame[c].result.kind = "ok"
        /\ frame[d].pc = "loop" /\ frame[d].i = 1
        /\ frame[c].op # frame[d].op
        /\ frame[c].x # frame[d].x

----------------------------------------------------------------------------
(* The report read back: the pieces between the header and the connectives. *)

Described == report.op = "RuleList.describe" /\ report.out # Pending
ElseAt == {k \in 1..Len(report.out.val) : report.out.val[k] = "\nELSE "}
HeaderEnd == CHOOSE h \in 1..Len(report.out.val) : report.out.val[h] = " of rules:\n\n     "
(* the position of the i-th connective *)
NthElse(i) == CHOOSE k \in ElseAt : Cardinality({m \in ElseAt : m < k}) = i - 1
Entry(i, n) ==
    SubSeq(report.out.val,
           IF i = 1 THEN HeaderEnd + 1 ELSE NthElse(i - 1) + 1,
           IF i = n THEN Len(report.out.val) ELSE NthElse(i) - 1)
Rendering(rule) ==
    Rule_describe(rule, report.feature_names,
                  intervals_of(discretizer_of(processors).val, rule), "prob")

(* C11. Report structure: for a trained list of N >= 1 rules ending in the  *)
(* default rule, RuleList.describe produces the header stating N, then the  *)
(* N rules' renderings in list order, an ELSE connective between every two  *)
(* consecutive rules (N-1 in all) and none after the last, the last entry   *)
(* being the default rule's DEFAULT rendering.                              *)
C11_ReportStructure ==
    (Described /\ EndsInDefault) =>
        /\ report.out.kind = "ok"
        /\ LET text == report.out.val
               n == Len(rule_list)
           IN /\ text[1] = "The rule list has "
              /\ \E h \in 1..Len(text) : text[h] = " of rules:\n\n     "
              /\ py_int(SubSeq(text, 2, HeaderEnd - 1)) = Ok(n)
              /\ Cardinality(ElseAt) = n - 1
              /\ \A i \in 1..n :
                    /\ Rendering(rule_list[i]).kind = "ok"
                    /\ Entry(i, n) = Rendering(rule_list[i]).val \o <<"\n">>
              /\ Entry(n, n)[1] = "DEFAULT "
              /\ text[Len(text)] = "\n"

----------------------------------------------------------------------------
(* C12. Training rebuilds the rule list wholesale: whenever a train call,   *)
(* the first or a later one, has returned, rule_list holds only rules of    *)
(* that call's mining result: len(rule_list) = n_rules = the length of the  *)
(* returned ordering, rule i is the parse of the name of the i-th rule      *)
(* identifier with output row i of the probability matrix, and its support  *)
(* is row i of compute_support on that call's training data.  The parse is  *)
(* stated from the engine's side as well: the name is "default" and the     *)
(* rule the default rule, or the name is the engine's text of the rule's    *)
(* conditions.  So is the support: its entry for a class is the number of   *)
(* training instances of that class whose earliest matching rule is rule i. *)
MinedName(i) == training._model[3][training._model[1][i] + 1]
NamedBy(rule, name) ==
    IF name = DefaultName THEN rule.feature_indices = <<-1>> /\ rule.categories = <<-1>>
    ELSE name = rule_text(rule.feature_indices, rule.categories, EnginePrefix)
Captured(i, label) ==
    Cardinality({j \in 1..Len(training.y) :
                    /\ training.y[j] = label
                    /\ FirstMatch(rule_list, training.x.rows[j]) = i})
SupportNow ==
    run_alone("compute_support", rule_list, n_rules, n_classes.val,
              training.x, training.y, FALSE, <<>>)

C12_RebuiltWholesale ==
    (training.out.kind = "ok") =>
        /\ Len(rule_list) = Len(training._model[1])
        /\ n_rules = Len(training._model[1])
        /\ SupportNow.kind = "ok"
        /\ \A i \in 1..Len(rule_list) :
              LET parsed == rule_name2rule(MinedName(i), training._model[2][i], None)
              IN /\ parsed.kind = "ok"
                 /\ rule_list[i].feature_indices = parsed.val.feature_indices
                 /\ rule_list[i].categories = parsed.val.categories
                 /\ rule_list[i].output = training._model[2][i]
                 /\ rule_list[i].support = Some(SupportNow.val[i])
                 /\ NamedBy(rule_list[i], MinedName(i))
                 /\ rule_list[i].support.has
                 /\ rule_list[i].support.val
                       = [k \in 1..n_classes.val |-> Captured(i, k - 1)]

(* a second training has returned with a shorter list than the one it       *)
(* replaced, and some rule of it holds training instances                   *)
C12_Witness ==
    /\ training.out.kind = "ok"
    /\ training._model \in Remined
    /\ Len(rule_list) = 1
    /\ training.x = TrainX3
    /\ \E k \in 1..n_classes.val : rule_list[1].support.val[k] >= 2

----------------------------------------------------------------------------
(* C13. Default-rule recognition is consistent: for a rule whose feature    *)
(* indices may hold the sentinel -1 at any position, Rule.describe renders  *)
(* it as DEFAULT, and RuleList.describe skips its interval lookup, exactly  *)
(* when Rule.is_satisfy treats it as the default rule and matches every     *)
(* instance unconditionally.                                                *)
RenderedDefault == report.out.kind = "ok" /\ report.out.val[1] = "DEFAULT "
SkippedLookup == report.category_intervals = Some(<<>>)
TreatedAsDefault ==
    /\ sat.whole = [kind |-> "array", val |-> np_ones(sat.x.shape[1])]
    /\ sat.parts = [kind |-> "array", val |-> np_ones(sat.x.shape[1])]

C13_ConsistentDefault ==
    (report.op = "Rule.describe" /\ sat.whole # Pending /\ sat.parts # Pending) =>
        /\ RenderedDefault <=> TreatedAsDefault
        /\ SkippedLookup <=> TreatedAsDefault

====
